---- MODULE Spec2Model ----
(***************************************************************************)
(* The button-to-display pipeline of the kiosk firmware.                   *)
(*                                                                         *)
(* Two programs of the repository are modelled, selected by `program`:     *)
(*   "run.py"            the voting kiosk (pairs, random no-repeat)        *)
(*   "switch-images.py"  the plain slideshow (sequential wraparound)       *)
(* Each has a GPIO polling thread (monitor_buttons) and a main thread      *)
(* (main) that handles keyboard events and drains command_queue.           *)
(*                                                                         *)
(* Time is counted in ticks of 10 ms.                                      *)
(***************************************************************************)
EXTENDS Integers, Sequences, FiniteSets, TLC

VARIABLES
    program,                \* which of the two scripts is running
    running,                \* the shutdown flag (global `running`)
    mpc,                    \* position of the main thread
    image_pairs,            \* run.py: the Collection, a sequence of pair ids
    current_pair_index,     \* run.py: the Cursor
    recent_pairs_history,   \* run.py: RecentHistory
    selected_image,         \* run.py: the Selection flag (None, 0 left, 1 right)
    image_paths,            \* switch-images.py: the Collection
    current_image_index,    \* switch-images.py: the Cursor (the global)
    screen,                 \* what the last draw put on the display
    command_queue,          \* the Command Channel
    put_fault,              \* outcome of the puts so far: "none", "Full", "blocked"
    dpc,                    \* position of the monitor_buttons thread
    dbtn,                   \* run.py: the button whose press is being handled
    button1_previous,
    button2_previous,
    button1_current,        \* monitor_buttons' locals, meaningful inside an iteration
    button2_current,
    since_press,            \* time.time() - last_button_press_time, saturated
    gap_at_sample,          \* current_time - last_button_press_time of this iteration
    accepted,               \* the buttons whose press this iteration accepted
    vote,                   \* the send_vote request of the press being handled
    caught,                 \* what the catch-all of monitor_buttons caught last
    released,               \* the resources main has released: pygame, GPIO
    listed                  \* run.py: the file names os.listdir("images") gave
                            \* organize_image_pairs, in the file-level
                            \* specification

vars == <<program, running, mpc, image_pairs, current_pair_index,
          recent_pairs_history, selected_image, image_paths,
          current_image_index, screen, command_queue, put_fault,
          dpc, dbtn, button1_previous, button2_previous, button1_current,
          button2_current, since_press, gap_at_sample, accepted, vote,
          caught, released, listed>>

engine_vars == <<image_pairs, current_pair_index, recent_pairs_history,
                 image_paths, current_image_index>>

detector_vars == <<dpc, dbtn, button1_previous, button2_previous,
                   button1_current, button2_current, since_press,
                   gap_at_sample, accepted, vote, caught>>

----------------------------------------------------------------------------
(* Bounds of the model *)

\* largest Collection of the full specification
MaxPairs == 2

\* a key press or button edge arrives only while fewer commands are waiting
MaxBacklog == 1

\* size of the Collection in the navigation specification (must exceed K+1)
NavPairs == 7

\* backlog bound of the navigation specification
NavBacklog == 1

(* Program constants *)

MAX_HISTORY_SIZE == 5

maxsize_bounded == 1 + 1

\* queue.Queue() is built without a maxsize: 0 means unbounded
maxsize == 0

\* Python's None in the Selection flag, told apart from the sides 0 and 1
None == -1

\* no send_vote call is in progress
NoVote == <<>>

RunPy == "run.py"
SwitchPy == "switch-images.py"

Min(a, b) == IF a < b THEN a ELSE b

\* monitor_buttons is a daemon thread started by main(): it runs from the
\* end of the start-up until main leaves its loop for the `finally` block,
\* after which the process ends
DetectorAlive == mpc \notin {"startup", "crashed", "finally", "exited"}

\* debounce_time in ticks: 0.05 s in run.py, 0.1 s in switch-images.py
debounce_time(p) == IF p = RunPy THEN 5 ELSE 10

\* the sleep that ends a poll iteration: 0.01 s and 0.05 s
poll_interval(p) == IF p = RunPy THEN 1 ELSE 5

\* the sleep after a failed iteration: 0.1 s and 0.5 s
error_backoff(p) == IF p = RunPy THEN 10 ELSE 50

\* run.py's time.sleep(0.5) between the vote and the "next" command
settle_delay == 50

\* since_press saturates one tick above the longest debounce window
TimeCap == debounce_time(SwitchPy) + 1

\* time.sleep(d): at least d ticks pass
AfterSleep(t, d) == {Min(TimeCap, u) : u \in (t + d)..(TimeCap + d)}

----------------------------------------------------------------------------
(* The Command Channel: queue.Queue *)

QueueFull(q) == maxsize > 0 /\ Len(q) >= maxsize

put_lifo(q, item) == IF QueueFull(q) THEN q ELSE <<item>> \o q

\* Queue.put: appends at the tail; on a full queue nothing is added
put(q, item) == IF QueueFull(q) THEN q ELSE Append(q, item)

\* what a put on q does to the caller: a blocking put on a full queue hangs,
\* a put(block=False) raises queue.Full
put_outcome(q, block) ==
    IF QueueFull(q) THEN (IF block THEN "blocked" ELSE "Full") ELSE "none"

\* the first fault of a run is kept
Fault(old, new) == IF old # "none" THEN old ELSE new

\* Queue.get_nowait on a non-empty queue: the item at the head is returned
get_nowait(q) == Head(q)

\* ... and the queue keeps the rest
after_get(q) == Tail(q)

RECURSIVE put_all(_, _)
put_all(q, items) ==
    IF items = <<>> THEN q ELSE put_all(put(q, Head(items)), Tail(items))

RECURSIVE put_all_outcome(_, _, _)
put_all_outcome(q, items, block) ==
    IF items = <<>> THEN "none"
    ELSE Fault(put_outcome(q, block),
               put_all_outcome(put(q, Head(items)), Tail(items), block))

----------------------------------------------------------------------------
(* The Selection Engine of run.py *)

InHistory(i, hist) == \E k \in 1..Len(hist) : hist[k] = i

max_attempts_off_by_one(n) == n * 2 + 1

\* max_attempts = len(image_pairs) * 2
max_attempts(n) == n * 2

\* the while condition of next_pair / previous_pair
KeepDrawing(new_index, attempts, cur, hist, n) ==
    /\ (new_index = cur \/ InHistory(new_index, hist))
    /\ attempts < max_attempts(n)

\* The draw loop.  cands is the set of values new_index may hold after
\* `attempts` draws; every draw is any index of 0..n-1.  The result is the
\* set of <<new_index, attempts>> with which the loop can end.
RECURSIVE DrawLoop(_, _, _, _, _)
DrawLoop(cands, attempts, cur, hist, n) ==
    LET stay == {x \in cands : KeepDrawing(x, attempts, cur, hist, n)}
    IN  {<<x, attempts>> : x \in cands \ stay}
        \cup (IF stay = {} THEN {}
              ELSE DrawLoop(0..(n - 1), attempts + 1, cur, hist, n))

\* the outcomes of the loop started as the code starts it
Draws(cur, hist, n) == DrawLoop({cur}, 0, cur, hist, n)

history_push_no_evict(hist, cur) == Append(hist, cur)

history_push_front(hist, cur) ==
    LET h == <<cur>> \o hist
    IN  IF Len(h) > MAX_HISTORY_SIZE
        THEN SubSeq(h, 1, MAX_HISTORY_SIZE) ELSE h

\* recent_pairs_history.append(...); pop(0) beyond MAX_HISTORY_SIZE
history_push(hist, cur) ==
    LET h == Append(hist, cur)
    IN  IF Len(h) > MAX_HISTORY_SIZE THEN Tail(h) ELSE h

next_pair_unguarded(q) ==
    \E new_index \in {r[1] : r \in Draws(current_pair_index,
                          recent_pairs_history, Len(image_pairs))} :
        /\ recent_pairs_history' =
               history_push(recent_pairs_history, current_pair_index)
        /\ current_pair_index' = new_index
        /\ command_queue' = put(q, "display")
        /\ put_fault' = Fault(put_fault, put_outcome(q, TRUE))

\* next_pair(), called with q the queue as the caller left it
next_pair(q) ==
    IF image_pairs = <<>>
    THEN /\ command_queue' = q
         /\ UNCHANGED <<current_pair_index, recent_pairs_history, put_fault>>
    ELSE \E new_index \in {r[1] : r \in Draws(current_pair_index,
                                  recent_pairs_history, Len(image_pairs))} :
            /\ recent_pairs_history' =
                   history_push(recent_pairs_history, current_pair_index)
            /\ current_pair_index' = new_index
            /\ command_queue' = put(q, "display")
            /\ put_fault' = Fault(put_fault, put_outcome(q, TRUE))

\* previous_pair(): the same body as next_pair
previous_pair(q) ==
    IF image_pairs = <<>>
    THEN /\ command_queue' = q
         /\ UNCHANGED <<current_pair_index, recent_pairs_history, put_fault>>
    ELSE \E new_index \in {r[1] : r \in Draws(current_pair_index,
                                  recent_pairs_history, Len(image_pairs))} :
            /\ recent_pairs_history' =
                   history_push(recent_pairs_history, current_pair_index)
            /\ current_pair_index' = new_index
            /\ command_queue' = put(q, "display")
            /\ put_fault' = Fault(put_fault, put_outcome(q, TRUE))

----------------------------------------------------------------------------
(* The asset store and the Renderer of run.py *)

PairIds == 1..MaxPairs

\* a directory listing of images/: files <id>_<side>.jpg as <<id, side>>
Listings(ids) == SUBSET (ids \X {1, 2})

\* the sequences that hold every element of S exactly once
Orders(S) ==
    {s \in [1..Cardinality(S) -> S] :
        \A i, j \in 1..Cardinality(S) : i # j => s[i] # s[j]}

\* organize_image_pairs(): the ids with both files, sorted, then shuffled:
\* every order of them is a possible result
organize_image_pairs(listing) ==
    Orders({id \in {f[1] : f \in listing} :
               <<id, 1>> \in listing /\ <<id, 2>> \in listing})

\* placeholders drawn instead of a pair
NoPairs == 0
ErrorImage == -1

\* the display before the first draw
Blank == -2

\* load_current_pair(): the pair at the Cursor, the "No image pairs found"
\* placeholder, or the error placeholder when the load raises
load_current_pair(pairs, index) ==
    IF pairs = <<>> THEN NoPairs
    ELSE IF index < Len(pairs) THEN pairs[index + 1] ELSE ErrorImage

\* display_current_pair(): the images i (0 left, 1 right) on which the loop
\* draws the box and border, `if selected_image is not None and
\* selected_image != i`
marked_images(flag) == {i \in {0, 1} : flag # None /\ flag # i}

display_current_pair_unmarked(pairs, index) ==
    screen' = [item |-> load_current_pair(pairs, index),
               selected |-> None]

\* load_current_pair(); display_current_pair(): the loaded pair is drawn
\* with the marker that selected_image asks for at this moment
display_current_pair(pairs, index) ==
    screen' = [item |-> load_current_pair(pairs, index),
               selected |-> selected_image]

----------------------------------------------------------------------------
(* The main thread of run.py: the event loop of main() *)

\* K_RIGHT / K_n
KeyNextPair(backlog) ==
    /\ program = RunPy /\ mpc = "events"
    /\ Len(command_queue) < backlog
    /\ next_pair(command_queue)
    /\ UNCHANGED <<listed, released, program, running, mpc, image_pairs, selected_image,
                   image_paths, current_image_index, screen>>
    /\ UNCHANGED detector_vars

\* K_LEFT / K_p
KeyPreviousPair(backlog) ==
    /\ program = RunPy /\ mpc = "events"
    /\ Len(command_queue) < backlog
    /\ previous_pair(command_queue)
    /\ UNCHANGED <<listed, released, program, running, mpc, image_pairs, selected_image,
                   image_paths, current_image_index, screen>>
    /\ UNCHANGED detector_vars

AfterIterationUnchecked == "events"

\* the while test that follows an iteration: only main writes `running`
AfterIteration == IF running THEN "events" ELSE "finally"

\* command_queue.get_nowait() and the dispatch of the command, then the
\* sleep and the loop test.  Nothing happens on queue.Empty.
QueueStepPairs ==
    /\ program = RunPy /\ mpc = "events"
    /\ mpc' = AfterIteration
    /\ IF command_queue = <<>>
       THEN UNCHANGED <<command_queue, current_pair_index,
                        recent_pairs_history, put_fault, screen>>
       ELSE CASE get_nowait(command_queue) = "next" ->
                      /\ next_pair(after_get(command_queue))
                      /\ UNCHANGED screen
                 [] get_nowait(command_queue) = "previous" ->
                      /\ previous_pair(after_get(command_queue))
                      /\ UNCHANGED screen
                 [] OTHER ->
                      /\ command_queue' = after_get(command_queue)
                      /\ UNCHANGED <<current_pair_index,
                                     recent_pairs_history, put_fault>>
                      /\ display_current_pair(image_pairs, current_pair_index)
    /\ UNCHANGED <<listed, released, program, running, image_pairs, selected_image,
                   image_paths, current_image_index>>
    /\ UNCHANGED detector_vars

----------------------------------------------------------------------------
(* Initial states *)

DetectorInit ==
    /\ dpc = "poll" /\ dbtn = 0
    /\ button1_previous = 0 /\ button2_previous = 0
    /\ button1_current = 0 /\ button2_current = 0
    /\ since_press = TimeCap
    /\ gap_at_sample = TimeCap
    /\ accepted = {}
    /\ vote = NoVote
    /\ caught = "none"

\* run.py after main() has drawn the first pair: the Collection is some
\* order of the complete pairs found, the Cursor a random index of it
InitPairs(collections) ==
    /\ program = RunPy
    /\ running = TRUE /\ mpc = "events"
    /\ image_pairs \in collections
    /\ current_pair_index \in
           (IF image_pairs = <<>> THEN {0} ELSE 0..(Len(image_pairs) - 1))
    /\ recent_pairs_history = <<>>
    /\ selected_image = None
    /\ image_paths = <<>> /\ current_image_index = 0
    /\ screen = [item |-> load_current_pair(image_pairs, current_pair_index),
                 selected |-> None]
    /\ command_queue = <<>> /\ put_fault = "none"
    /\ released = {}
    /\ listed = {}
    /\ DetectorInit

----------------------------------------------------------------------------
(* The navigation specification: the Selection Engine of run.py driven by   *)
(* the keyboard, with Collections of 1..NavPairs pairs                      *)

InitNav == InitPairs({[i \in 1..n |-> i] : n \in 1..NavPairs})

NextNav ==
    \/ KeyNextPair(NavBacklog)
    \/ KeyPreviousPair(NavBacklog)
    \/ QueueStepPairs

SpecNav == InitNav /\ [][NextNav]_vars

----------------------------------------------------------------------------
(* The reload key of run.py: sync_and_reload(), statement by statement,     *)
(* because the monitor_buttons thread reads image_pairs and the Cursor      *)

\* K_r: sync_with_server(); image_pairs.clear()
KeyReloadPairs ==
    /\ program = RunPy /\ mpc = "events"
    /\ Len(command_queue) < MaxBacklog
    /\ image_pairs' = <<>>
    /\ mpc' = "reload_cleared"
    /\ UNCHANGED <<listed, released, program, running, current_pair_index,
                   recent_pairs_history, selected_image, image_paths,
                   current_image_index, screen, command_queue, put_fault>>
    /\ UNCHANGED detector_vars

\* organize_image_pairs() over whatever images/ holds after the sync
ReloadOrganize ==
    /\ program = RunPy /\ mpc = "reload_cleared"
    /\ \E listing \in Listings(PairIds) :
           image_pairs' \in organize_image_pairs(listing)
    /\ mpc' = "reload_organized"
    /\ UNCHANGED <<listed, released, program, running, current_pair_index,
                   recent_pairs_history, selected_image, image_paths,
                   current_image_index, screen, command_queue, put_fault>>
    /\ UNCHANGED detector_vars

\* current_pair_index = 0
ReloadReset ==
    /\ program = RunPy /\ mpc = "reload_organized"
    /\ current_pair_index' = 0
    /\ mpc' = "reload_reset"
    /\ UNCHANGED <<listed, released, program, running, image_pairs, recent_pairs_history,
                   selected_image, image_paths, current_image_index, screen,
                   command_queue, put_fault>>
    /\ UNCHANGED detector_vars

\* load_current_pair(); display_current_pair()
ReloadDisplay ==
    /\ program = RunPy /\ mpc = "reload_reset"
    /\ display_current_pair(image_pairs, current_pair_index)
    /\ mpc' = "events"
    /\ UNCHANGED <<listed, released, program, running, image_pairs, current_pair_index,
                   recent_pairs_history, selected_image, image_paths,
                   current_image_index, command_queue, put_fault>>
    /\ UNCHANGED detector_vars

\* QUIT, K_ESCAPE, K_q: the rest of the iteration still runs
KeyQuit ==
    /\ mpc = "events" /\ running
    /\ Len(command_queue) < MaxBacklog
    /\ running' = FALSE
    /\ UNCHANGED <<listed, released, program, mpc, image_pairs, current_pair_index,
                   recent_pairs_history, selected_image, image_paths,
                   current_image_index, screen, command_queue, put_fault>>
    /\ UNCHANGED detector_vars

----------------------------------------------------------------------------
(* The Selection Engine and the main thread of switch-images.py *)

\* largest image list of the slideshow
MaxImages == 2

ImageIds == 1..MaxImages

next_index_no_wrap(i, n) == i + 1

\* (current_image_index + 1) % len(image_paths)
next_index(i, n) == (i + 1) % n

\* (current_image_index - 1) % len(image_paths)
previous_index(i, n) == (i - 1) % n

\* image_paths.sort(): the files found, in ascending order
RECURSIVE SortedSeq(_)
SortedSeq(S) ==
    IF S = {} THEN <<>>
    ELSE LET m == CHOOSE x \in S : \A y \in S : x <= y
         IN  <<m>> \o SortedSeq(S \ {m})

\* load_current_image() raises out of its own except clause (img_path is
\* unbound there) when the index is beyond a non-empty list
LoadRaises(paths, index) == paths # <<>> /\ index >= Len(paths)

load_current_image(paths, index) ==
    IF paths = <<>> THEN NoPairs ELSE paths[index + 1]

\* load_current_image(); display_current_image() in main's loop: an
\* exception leaves the loop through `except Exception` to `finally`
ShowImage(paths, index, next_mpc) ==
    IF LoadRaises(paths, index)
    THEN /\ mpc' = "finally"
         /\ UNCHANGED <<screen, running>>
    ELSE /\ screen' = [item |-> load_current_image(paths, index),
                       selected |-> None]
         /\ mpc' = next_mpc
         /\ UNCHANGED running

next_image(q) ==
    IF image_paths = <<>>
    THEN /\ command_queue' = q
         /\ UNCHANGED <<current_image_index, put_fault>>
    ELSE /\ current_image_index' =
                next_index(current_image_index, Len(image_paths))
         /\ command_queue' = put(q, "display")
         /\ put_fault' = Fault(put_fault, put_outcome(q, TRUE))

previous_image(q) ==
    IF image_paths = <<>>
    THEN /\ command_queue' = q
         /\ UNCHANGED <<current_image_index, put_fault>>
    ELSE /\ current_image_index' =
                previous_index(current_image_index, Len(image_paths))
         /\ command_queue' = put(q, "display")
         /\ put_fault' = Fault(put_fault, put_outcome(q, TRUE))

\* K_RIGHT / K_n
KeyNextImage(backlog) ==
    /\ program = SwitchPy /\ mpc = "events"
    /\ Len(command_queue) < backlog
    /\ next_image(command_queue)
    /\ UNCHANGED <<listed, released, program, running, mpc, image_pairs, current_pair_index,
                   recent_pairs_history, selected_image, image_paths,
                   screen>>
    /\ UNCHANGED detector_vars

\* K_LEFT / K_p
KeyPreviousImage(backlog) ==
    /\ program = SwitchPy /\ mpc = "events"
    /\ Len(command_queue) < backlog
    /\ previous_image(command_queue)
    /\ UNCHANGED <<listed, released, program, running, mpc, image_pairs, current_pair_index,
                   recent_pairs_history, selected_image, image_paths,
                   screen>>
    /\ UNCHANGED detector_vars

\* K_r: image_paths.clear(); find_local_images(); current_image_index = 0.
\* main() does not declare current_image_index global, so the assignment
\* binds a local of main and the global Cursor keeps its value.
KeyReloadImages ==
    /\ program = SwitchPy /\ mpc = "events"
    /\ Len(command_queue) < MaxBacklog
    /\ \E found \in SUBSET ImageIds : image_paths' = SortedSeq(found)
    /\ mpc' = "reload_reset"
    /\ UNCHANGED <<listed, released, program, running, image_pairs, current_pair_index,
                   recent_pairs_history, selected_image,
                   current_image_index, screen, command_queue, put_fault>>
    /\ UNCHANGED detector_vars

\* load_current_image(); display_current_image() of the K_r branch
ReloadDisplayImage ==
    /\ program = SwitchPy /\ mpc = "reload_reset"
    /\ ShowImage(image_paths, current_image_index, "events")
    /\ UNCHANGED <<listed, released, program, image_pairs, current_pair_index,
                   recent_pairs_history, selected_image, image_paths,
                   current_image_index, command_queue, put_fault>>
    /\ UNCHANGED detector_vars

\* command_queue.get_nowait() and the dispatch, then the loop test
QueueStepImages ==
    /\ program = SwitchPy /\ mpc = "events"
    /\ IF command_queue = <<>>
       THEN /\ mpc' = AfterIteration
            /\ UNCHANGED <<command_queue, current_image_index,
                           put_fault, screen, running>>
       ELSE CASE get_nowait(command_queue) = "next" ->
                      /\ next_image(after_get(command_queue))
                      /\ mpc' = AfterIteration
                      /\ UNCHANGED <<screen, running>>
                 [] get_nowait(command_queue) = "previous" ->
                      /\ previous_image(after_get(command_queue))
                      /\ mpc' = AfterIteration
                      /\ UNCHANGED <<screen, running>>
                 [] OTHER ->
                      /\ command_queue' = after_get(command_queue)
                      /\ UNCHANGED <<current_image_index, put_fault>>
                      /\ ShowImage(image_paths, current_image_index,
                                   AfterIteration)
    /\ UNCHANGED <<listed, released, program, image_pairs, current_pair_index,
                   recent_pairs_history, selected_image, image_paths>>
    /\ UNCHANGED detector_vars

----------------------------------------------------------------------------
(* The Debounced Edge Detector: monitor_buttons() of both programs *)

debounce_ok_strict(gap, p) == gap > debounce_time(p)

\* current_time - last_button_press_time >= debounce_time
debounce_ok(gap, p) == gap >= debounce_time(p)

\* buttonN_current == 1 and buttonN_previous == 0
Edge(current, previous) == current = 1 /\ previous = 0

\* the option voted by a button and the side it selects (run.py)
VoteOption(b) == IF b = 1 THEN 1 ELSE 2
SelectedSide(b) == IF b = 1 THEN 1 ELSE 0

\* One pass of the loop body up to the first press it accepts.
\* The loop ends when `running` is false.  b1 and b2 are the levels read by
\* GPIO.input: button 2 shows a level of levels2, and an edge arrives only
\* while can_press holds (the bound on the environment).
\* switch-images.py handles both buttons at once (nothing in between can be
\* observed); run.py starts the handling of the first accepted press.
Poll(can_press, levels2) ==
    /\ dpc = "poll" /\ DetectorAlive
    /\ IF ~running
       THEN /\ dpc' = "stopped"
            /\ UNCHANGED <<caught, dbtn, button1_current, button2_current,
                           since_press, gap_at_sample, accepted,
                           selected_image, command_queue, put_fault>>
       ELSE \E b1 \in {0, 1}, b2 \in levels2 :
            LET ok == debounce_ok(since_press, program)
                a1 == ok /\ Edge(b1, button1_previous)
                a2 == ok /\ Edge(b2, button2_previous)
            IN
            /\ (Edge(b1, button1_previous) \/ Edge(b2, button2_previous))
                   => can_press
            /\ button1_current' = b1
            /\ button2_current' = b2
            /\ gap_at_sample' = since_press
            /\ caught' = "none"
            /\ IF program = SwitchPy
               THEN LET cmds == (IF a1 THEN <<"next">> ELSE <<>>)
                                \o (IF a2 THEN <<"previous">> ELSE <<>>)
                    IN  /\ command_queue' = put_all(command_queue, cmds)
                        /\ put_fault' = Fault(put_fault,
                               put_all_outcome(command_queue, cmds, FALSE))
                        /\ since_press' = IF a1 \/ a2 THEN 0 ELSE since_press
                        /\ accepted' = (IF a1 THEN {1} ELSE {})
                                       \cup (IF a2 THEN {2} ELSE {})
                        /\ dpc' = "end_iter"
                        /\ UNCHANGED <<dbtn, selected_image>>
               ELSE IF a1
               THEN /\ selected_image' = SelectedSide(1)
                    /\ command_queue' = put(command_queue, "display")
                    /\ put_fault' = Fault(put_fault,
                                          put_outcome(command_queue, FALSE))
                    /\ accepted' = {1}
                    /\ dbtn' = 1
                    /\ dpc' = "vote"
                    /\ UNCHANGED since_press
               ELSE /\ dpc' = "check2"
                    /\ accepted' = {}
                    /\ UNCHANGED <<dbtn, selected_image, command_queue,
                                   put_fault, since_press>>
    /\ UNCHANGED <<listed, released, program, running, mpc, image_pairs, current_pair_index,
                   recent_pairs_history, image_paths, current_image_index,
                   screen, button1_previous, button2_previous,
                   vote>>

PollReadErrorFatal ==
    /\ dpc = "poll" /\ DetectorAlive /\ running
    /\ dpc' = "stopped"
    /\ caught' = "read"
    /\ UNCHANGED <<listed, released, program, running, mpc, image_pairs,
                   current_pair_index, recent_pairs_history, selected_image,
                   image_paths, current_image_index, screen, command_queue,
                   put_fault, dbtn, button1_previous, button2_previous,
                   button1_current, button2_current, since_press,
                   gap_at_sample, accepted, vote>>

\* GPIO.input raises: the catch-all prints, sleeps and the loop goes on
PollReadError ==
    /\ dpc = "poll" /\ DetectorAlive /\ running
    /\ since_press' \in AfterSleep(since_press, error_backoff(program))
    /\ caught' = "read"
    /\ UNCHANGED <<listed, released, program, running, mpc, image_pairs, current_pair_index,
                   recent_pairs_history, selected_image, image_paths,
                   current_image_index, screen, command_queue, put_fault, dpc, dbtn, button1_previous, button2_previous,
                   button1_current, button2_current, gap_at_sample,
                   accepted, vote>>

\* run.py: the second `if` of the iteration, reached after the handling of
\* button 1 or directly; the debounce test is not evaluated again
CheckButton2 ==
    /\ dpc = "check2" /\ DetectorAlive
    /\ IF debounce_ok(gap_at_sample, program)
          /\ Edge(button2_current, button2_previous)
       THEN /\ selected_image' = SelectedSide(2)
            /\ command_queue' = put(command_queue, "display")
            /\ put_fault' = Fault(put_fault,
                                  put_outcome(command_queue, FALSE))
            /\ accepted' = accepted \cup {2}
            /\ dbtn' = 2
            /\ dpc' = "vote"
       ELSE /\ dpc' = "end_iter"
            /\ UNCHANGED <<selected_image, command_queue, put_fault,
                           accepted, dbtn>>
    /\ UNCHANGED <<listed, released, program, running, mpc, image_pairs, current_pair_index,
                   recent_pairs_history, image_paths, current_image_index,
                   screen, caught, button1_previous, button2_previous,
                   button1_current, button2_current, since_press,
                   gap_at_sample, vote>>

\* run.py: `if image_pairs and current_pair_index < len(image_pairs)`
VoteCheck ==
    /\ dpc = "vote" /\ DetectorAlive
    /\ dpc' = IF image_pairs # <<>> /\ current_pair_index < Len(image_pairs)
              THEN "vote_read" ELSE "sleep"
    /\ UNCHANGED <<listed, released, program, running, mpc, image_pairs,
                   current_pair_index, recent_pairs_history, selected_image,
                   image_paths, current_image_index, screen, command_queue,
                   put_fault, dbtn, caught, button1_previous, button2_previous,
                   button1_current, button2_current, since_press,
                   gap_at_sample, accepted, vote>>

\* run.py: get_pair_id(... image_pairs[current_pair_index][0]) and the call
\* of send_vote, whose requests.get is now waiting for the server.  The
\* Collection is read again here: when main has emptied or shortened it
\* since the test, the subscript raises IndexError, which the catch-all of
\* the loop prints before it sleeps and starts the next iteration.
SendVote ==
    /\ dpc = "vote_read" /\ DetectorAlive
    /\ IF current_pair_index < Len(image_pairs)
       THEN /\ vote' = <<image_pairs[current_pair_index + 1],
                         VoteOption(dbtn)>>
            /\ dpc' = "voting"
            /\ UNCHANGED <<dbtn, button1_current, button2_current,
                           since_press, gap_at_sample, accepted, caught>>
       ELSE /\ since_press' \in
                   AfterSleep(since_press, error_backoff(program))
            /\ dpc' = "poll"
            /\ dbtn' = 0
            /\ button1_current' = 0 /\ button2_current' = 0
            /\ gap_at_sample' = TimeCap
            /\ accepted' = {}
            /\ caught' = "IndexError"
            /\ UNCHANGED vote
    /\ UNCHANGED <<listed, released, program, running, mpc, image_pairs,
                   current_pair_index, recent_pairs_history, selected_image,
                   image_paths, current_image_index, screen, command_queue,
                   put_fault, button1_previous, button2_previous>>

\* run.py: requests.get of send_vote returns a response or raises; either
\* way send_vote prints and returns.  The call has no timeout.
VoteReturns ==
    /\ dpc = "voting" /\ DetectorAlive
    /\ dpc' = "sleep"
    /\ UNCHANGED <<listed, released, program, running, mpc, image_pairs,
                   current_pair_index, recent_pairs_history, selected_image,
                   image_paths, current_image_index, screen, command_queue,
                   put_fault, dbtn, caught, button1_previous, button2_previous,
                   button1_current, button2_current, since_press,
                   gap_at_sample, accepted, vote>>

\* run.py: time.sleep(0.5)
Settle ==
    /\ dpc = "sleep" /\ DetectorAlive
    /\ since_press' \in AfterSleep(since_press, settle_delay)
    /\ dpc' = "finish"
    /\ UNCHANGED <<listed, released, program, running, mpc, image_pairs, current_pair_index,
                   recent_pairs_history, selected_image, image_paths,
                   current_image_index, screen, command_queue, put_fault, dbtn, caught, button1_previous, button2_previous,
                   button1_current, button2_current, gap_at_sample,
                   accepted, vote>>

\* run.py: command_queue.put("next", block=False)
Finish ==
    /\ dpc = "finish" /\ DetectorAlive
    /\ command_queue' = put(command_queue, "next")
    /\ put_fault' = Fault(put_fault, put_outcome(command_queue, FALSE))
    /\ dpc' = "reset"
    /\ UNCHANGED <<listed, released, program, running, mpc, image_pairs,
                   current_pair_index, recent_pairs_history, selected_image,
                   image_paths, current_image_index, screen, dbtn,
                   caught, button1_previous, button2_previous, button1_current,
                   button2_current, since_press, gap_at_sample, accepted,
                   vote>>

\* run.py: selected_image = None; put("display");
\* last_button_press_time = current_time, a time stamp taken before the
\* sleep, so at least settle_delay has passed since
ResetSelection ==
    /\ dpc = "reset" /\ DetectorAlive
    /\ selected_image' = None
    /\ command_queue' = put(command_queue, "display")
    /\ put_fault' = Fault(put_fault, put_outcome(command_queue, FALSE))
    /\ since_press' = Min(TimeCap, settle_delay)
    /\ vote' = NoVote
    /\ dpc' = IF dbtn = 1 THEN "check2" ELSE "end_iter"
    /\ UNCHANGED <<listed, released, program, running, mpc, image_pairs,
                   current_pair_index, recent_pairs_history, image_paths,
                   current_image_index, screen, dbtn, caught, button1_previous,
                   button2_previous, button1_current, button2_current,
                   gap_at_sample, accepted>>

EndIterKeepsDropped ==
    /\ dpc = "end_iter" /\ DetectorAlive
    /\ button1_previous' = IF debounce_ok(gap_at_sample, program)
                           THEN button1_current ELSE button1_previous
    /\ button2_previous' = IF debounce_ok(gap_at_sample, program)
                           THEN button2_current ELSE button2_previous
    /\ since_press' \in AfterSleep(since_press, poll_interval(program))
    /\ dpc' = "poll"
    /\ dbtn' = 0
    /\ button1_current' = 0 /\ button2_current' = 0
    /\ gap_at_sample' = TimeCap
    /\ accepted' = {}
    /\ UNCHANGED <<listed, released, program, running, mpc, image_pairs,
                   current_pair_index, recent_pairs_history, selected_image,
                   image_paths, current_image_index, screen, command_queue,
                   put_fault, vote, caught>>

\* buttonN_previous = buttonN_current; time.sleep(poll interval)
EndIter ==
    /\ dpc = "end_iter" /\ DetectorAlive
    /\ button1_previous' = button1_current
    /\ button2_previous' = button2_current
    /\ since_press' \in AfterSleep(since_press, poll_interval(program))
    /\ dpc' = "poll"
    /\ dbtn' = 0
    /\ button1_current' = 0 /\ button2_current' = 0
    /\ gap_at_sample' = TimeCap
    /\ accepted' = {}
    /\ UNCHANGED <<listed, released, program, running, mpc, image_pairs, current_pair_index,
                   recent_pairs_history, selected_image, image_paths,
                   current_image_index, screen, command_queue, put_fault, vote, caught>>

----------------------------------------------------------------------------
(* Start-up and exit of main() *)

\* the module-level state when main() is called: the GPIO pins are set up,
\* nothing is loaded or drawn
InitModule(p) ==
    /\ program = p
    /\ running = TRUE /\ mpc = "startup"
    /\ image_pairs = <<>> /\ current_pair_index = 0
    /\ recent_pairs_history = <<>>
    /\ selected_image = None
    /\ image_paths = <<>> /\ current_image_index = 0
    /\ screen = [item |-> Blank, selected |-> None]
    /\ command_queue = <<>> /\ put_fault = "none"
    /\ released = {}
    /\ listed = {}
    /\ DetectorInit

\* run.py, main() up to the loop: display set-up, find_local_images(), the
\* random initial Cursor, the thread start and the first draw
StartupPairs ==
    /\ program = RunPy /\ mpc = "startup"
    /\ \E listing \in Listings(PairIds) :
       \E pairs \in organize_image_pairs(listing) :
       \E index \in (IF pairs = <<>> THEN {0} ELSE 0..(Len(pairs) - 1)) :
           /\ image_pairs' = pairs
           /\ current_pair_index' = index
           /\ screen' = [item |-> load_current_pair(pairs, index),
                         selected |-> None]
    /\ mpc' = "events"
    /\ UNCHANGED <<listed, released, program, running, recent_pairs_history,
                   selected_image, image_paths, current_image_index,
                   command_queue, put_fault>>
    /\ UNCHANGED detector_vars

\* switch-images.py, main() up to the loop
StartupImages ==
    /\ program = SwitchPy /\ mpc = "startup"
    /\ \E found \in SUBSET ImageIds :
           /\ image_paths' = SortedSeq(found)
           /\ screen' = [item |-> load_current_image(SortedSeq(found), 0),
                         selected |-> None]
    /\ mpc' = "events"
    /\ UNCHANGED <<listed, released, program, running, image_pairs,
                   current_pair_index, recent_pairs_history, selected_image,
                   current_image_index, command_queue, put_fault>>
    /\ UNCHANGED detector_vars

\* an exception (pygame.error, OSError, KeyboardInterrupt during the sync)
\* in the statements of main() that precede its `try`: it leaves main() and
\* ends the process; no handler and no `finally` encloses these statements
StartupRaises ==
    /\ mpc = "startup"
    /\ mpc' = "crashed"
    /\ UNCHANGED <<listed, released, program, running, image_pairs,
                   current_pair_index, recent_pairs_history, selected_image,
                   image_paths, current_image_index, screen, command_queue,
                   put_fault>>
    /\ UNCHANGED detector_vars

\* finally: running = False; pygame.quit(); GPIO.cleanup(); then main
\* returns and the process ends: the daemon thread and the globals are gone,
\* the commands still waiting are never dequeued
ProcessEnds ==
    /\ running' = FALSE
    /\ released' = {"pygame", "GPIO"}
    /\ mpc' = "exited"
    /\ image_pairs' = <<>> /\ current_pair_index' = 0
    /\ recent_pairs_history' = <<>>
    /\ selected_image' = None
    /\ image_paths' = <<>> /\ current_image_index' = 0
    /\ screen' = [item |-> Blank, selected |-> None]
    /\ dpc' = "stopped" /\ dbtn' = 0
    /\ button1_previous' = 0 /\ button2_previous' = 0
    /\ button1_current' = 0 /\ button2_current' = 0
    /\ since_press' = TimeCap /\ gap_at_sample' = TimeCap
    /\ accepted' = {}
    /\ vote' = NoVote
    /\ caught' = "none"
    /\ UNCHANGED <<listed, program, command_queue, put_fault>>

\* Ctrl-C while main is inside its `try`: `except KeyboardInterrupt`, then
\* the `finally` block
KeyboardInterrupt ==
    /\ mpc \in {"events", "reload_cleared", "reload_organized",
                "reload_reset"}
    /\ ProcessEnds

\* run.py: os.listdir("images") of organize_image_pairs() raises during a
\* reload; `except Exception` of main catches it, then the `finally` block
ReloadRaises ==
    /\ program = RunPy /\ mpc = "reload_cleared"
    /\ ProcessEnds

\* the `finally` block after the loop has ended
Cleanup ==
    /\ mpc = "finally"
    /\ ProcessEnds

----------------------------------------------------------------------------
(* The full specification: either program, both threads *)

Init == InitModule(RunPy) \/ InitModule(SwitchPy)

Next ==
    \/ StartupPairs
    \/ StartupImages
    \/ StartupRaises
    \/ KeyboardInterrupt
    \/ ReloadRaises
    \/ Cleanup
    \/ KeyQuit
    \/ KeyNextPair(MaxBacklog)
    \/ KeyPreviousPair(MaxBacklog)
    \/ KeyReloadPairs
    \/ ReloadOrganize
    \/ ReloadReset
    \/ ReloadDisplay
    \/ QueueStepPairs
    \/ KeyNextImage(MaxBacklog)
    \/ KeyPreviousImage(MaxBacklog)
    \/ KeyReloadImages
    \/ ReloadDisplayImage
    \/ QueueStepImages
    \/ Poll(Len(command_queue) < MaxBacklog, {0, 1})
    \/ PollReadError
    \/ CheckButton2
    \/ VoteCheck
    \/ SendVote
    \/ VoteReturns
    \/ Settle
    \/ Finish
    \/ ResetSelection
    \/ EndIter

Spec == Init /\ [][Next]_vars

----------------------------------------------------------------------------
(* The press scenario: run.py with K+1 pairs, the Cursor at 0, an empty     *)
(* history, and button 1 pressed up to K times, each press made once the    *)
(* display has settled                                                      *)

ScenarioPairs == MAX_HISTORY_SIZE + 1

InitPress ==
    /\ InitPairs({[i \in 1..ScenarioPairs |-> i]})
    /\ current_pair_index = 0

NextPress ==
    \/ Poll(command_queue = <<>>
            /\ Len(recent_pairs_history) < MAX_HISTORY_SIZE, {0})
    \/ CheckButton2
    \/ VoteCheck
    \/ SendVote
    \/ VoteReturns
    \/ Settle
    \/ Finish
    \/ ResetSelection
    \/ EndIter
    \/ QueueStepPairs

SpecPress == InitPress /\ [][NextPress]_vars

----------------------------------------------------------------------------
(* The scheduling specification: either program from start-up to exit, with *)
(* the quit key, and button presses while nothing is waiting and no        *)
(* advance has been made.  Both threads keep running: the steps of main()   *)
(* and the steps of monitor_buttons that depend on nothing outside the      *)
(* program are weakly fair.  The answer of the vote server and a failing    *)
(* GPIO read are left to the environment.                                   *)

PollLive == Poll(command_queue = <<>> /\ recent_pairs_history = <<>>, {0, 1})

\* the steps the main thread takes on its own
MainStep ==
    \/ StartupPairs \/ StartupImages
    \/ QueueStepPairs \/ QueueStepImages
    \/ Cleanup

\* the steps the monitor_buttons thread takes on its own
DetectorOwnStep ==
    \/ PollLive \/ CheckButton2 \/ VoteCheck \/ SendVote
    \/ Settle \/ Finish \/ ResetSelection \/ EndIter

NextLive ==
    \/ StartupPairs
    \/ StartupImages
    \/ KeyQuit
    \/ QueueStepPairs
    \/ QueueStepImages
    \/ Cleanup
    \/ PollLive
    \/ PollReadError
    \/ CheckButton2
    \/ VoteCheck
    \/ SendVote
    \/ VoteReturns
    \/ Settle
    \/ Finish
    \/ ResetSelection
    \/ EndIter

SpecLive ==
    /\ Init /\ [][NextLive]_vars
    /\ WF_vars(MainStep)
    /\ WF_vars(DetectorOwnStep)

----------------------------------------------------------------------------
(* The scheduling specification with the reload key of run.py and a vote    *)
(* server that answers every request: besides the steps of both threads,    *)
(* the statements of sync_and_reload() once it has begun and the return of  *)
(* send_vote are weakly fair.                                               *)

\* the statements of sync_and_reload() after image_pairs.clear()
ReloadStep == ReloadOrganize \/ ReloadReset \/ ReloadDisplay

NextDrain ==
    \/ StartupPairs
    \/ StartupImages
    \/ KeyQuit
    \/ KeyReloadPairs
    \/ ReloadOrganize
    \/ ReloadReset
    \/ ReloadDisplay
    \/ QueueStepPairs
    \/ QueueStepImages
    \/ Cleanup
    \/ PollLive
    \/ PollReadError
    \/ CheckButton2
    \/ VoteCheck
    \/ SendVote
    \/ VoteReturns
    \/ Settle
    \/ Finish
    \/ ResetSelection
    \/ EndIter

SpecDrain ==
    /\ Init /\ [][NextDrain]_vars
    /\ WF_vars(MainStep \/ ReloadStep)
    /\ WF_vars(DetectorOwnStep)
    /\ WF_vars(VoteReturns)

----------------------------------------------------------------------------
(* The file-level specification: organize_image_pairs() of run.py on the    *)
(* file names of images/.  A name is <id>_<slot>.jpg, followed by           *)
(* <tail>.jpg when the tail is not empty (00384_1.jpg, 00384_1.jpg.bak.jpg, *)
(* 00384_3.jpg).  Here an Item of the Collection is the pair of names       *)
(* <<left, right>> that organize_image_pairs appends.                       *)

Tails == {"", ".bak"}

FileNames == [id : PairIds, slot : {1, 2, 3}, tail : Tails]

\* re.match(r'(\d+)_[12]\.jpg', filename): the pattern is matched at the
\* start of the name and need not reach its end
get_pair_id(f) == IF f.slot \in {1, 2} THEN f.id ELSE None

\* file.endswith('_1.jpg')
ends_with_1_jpg(f) == f.slot = 1 /\ f.tail = ""

\* idx = 0 if file.endswith('_1.jpg') else 1
slot_index(f) == IF ends_with_1_jpg(f) THEN 0 ELSE 1

\* the names that the loop over os.listdir stores in pair_dict[i][idx]; the
\* one listed last stays
SlotFiles(files, i, idx) ==
    {f \in files : get_pair_id(f) = i /\ slot_index(f) = idx}

\* the [left, right] lists of the ids with both slots filled, the _1 name
\* first
PairItems(files) ==
    {IF ends_with_1_jpg(l) THEN <<l, r>> ELSE <<r, l>> :
        <<l, r>> \in UNION {SlotFiles(files, i, 0) \X SlotFiles(files, i, 1) :
                              i \in PairIds}}

\* organize_image_pairs() on a listing: one Item per id with both slots
\* filled, sorted by id and then shuffled, so in any order
organize_files(files) ==
    LET ids == {i \in PairIds : /\ SlotFiles(files, i, 0) # {}
                                /\ SlotFiles(files, i, 1) # {}}
        choices == {S \in SUBSET PairItems(files) :
                       \A i \in PairIds :
                           Cardinality({it \in S : it[1].id = i}) =
                               (IF i \in ids THEN 1 ELSE 0)}
    IN  UNION {Orders(S) : S \in choices}

\* find_local_images() at start-up: os.listdir("images") gives some set of
\* names and organize_image_pairs() builds the Collection from it
OrganizeFiles ==
    /\ program = RunPy /\ mpc = "startup"
    /\ \E files \in SUBSET FileNames :
           /\ listed' = files
           /\ image_pairs' \in organize_files(files)
    /\ mpc' = "organized"
    /\ UNCHANGED <<released, program, running, current_pair_index,
                   recent_pairs_history, selected_image, image_paths,
                   current_image_index, screen, command_queue, put_fault>>
    /\ UNCHANGED detector_vars

NextOrganize == OrganizeFiles

SpecOrganize == InitModule(RunPy) /\ [][NextOrganize]_vars

----------------------------------------------------------------------------
(* Properties *)

\* a step in which main calls next_pair / previous_pair on a non-empty
\* Collection: from a key, or for a dequeued "next" / "previous"
AdvanceStep ==
    /\ program = RunPy /\ image_pairs # <<>> /\ mpc = "events"
    /\ UNCHANGED <<dpc, selected_image, image_pairs>>
    /\ \/ command_queue' = Append(command_queue, "display")
       \/ /\ command_queue # <<>>
          /\ Head(command_queue) \in {"next", "previous"}
          /\ command_queue' = Append(Tail(command_queue), "display")

\* C1: in a Collection of more than K+1 pairs, the Cursor after an advance
\* differs from the Cursor before it and from every index that
\* RecentHistory held when the advance was called.
C1_AdvanceAvoidsRecent ==
    [][(AdvanceStep /\ Len(image_pairs) > MAX_HISTORY_SIZE + 1)
        => /\ current_pair_index' # current_pair_index
           /\ ~InHistory(current_pair_index', recent_pairs_history)]_vars

\* C2: on a non-empty Collection of N pairs every way the draw loop can run
\* ends, after at most 2N draws, at an index of 0..N-1, and the Cursor is
\* an index of 0..N-1.
C2_DrawsBounded ==
    (program = RunPy /\ image_pairs # <<>>) =>
        LET n == Len(image_pairs)
            ends == Draws(current_pair_index, recent_pairs_history, n)
        IN  /\ ends # {}
            /\ \A r \in ends : r[2] <= 2 * n /\ r[1] \in 0..(n - 1)
            /\ current_pair_index \in 0..(n - 1)

\* an advance on at most K+1 pairs has used up its draws and kept the last
\* one: it landed on the index it left, with every index in RecentHistory
C2_Witness ==
    /\ program = RunPy /\ image_pairs # <<>>
    /\ Len(image_pairs) <= MAX_HISTORY_SIZE + 1
    /\ recent_pairs_history # <<>>
    /\ recent_pairs_history[Len(recent_pairs_history)] = current_pair_index
    /\ \A i \in 0..(Len(image_pairs) - 1) :
           InHistory(i, recent_pairs_history)
    /\ <<current_pair_index, 2 * Len(image_pairs)>> \in
           Draws(current_pair_index, recent_pairs_history, Len(image_pairs))

\* C3: with K+1 = 6 pairs, the Cursor at 0 and an empty history, no advance
\* caused by the first five presses leaves the Cursor where it was.
C3_NoImmediateRepeat ==
    [][AdvanceStep => current_pair_index' # current_pair_index]_vars

\* C4: RecentHistory never holds more than K = 5 entries.
C4_HistoryBounded ==
    Len(recent_pairs_history) <= MAX_HISTORY_SIZE

\* the history is full and a press has queued one more advance
C4_Witness ==
    /\ program = RunPy /\ image_pairs # <<>>
    /\ Len(recent_pairs_history) = MAX_HISTORY_SIZE
    /\ command_queue # <<>> /\ Head(command_queue) = "next"

\* a step in which main calls next_image() / previous_image()
NextImageCall ==
    \/ KeyNextImage(MaxBacklog)
    \/ (QueueStepImages /\ command_queue # <<>>
                        /\ Head(command_queue) = "next")

PreviousImageCall ==
    \/ KeyPreviousImage(MaxBacklog)
    \/ (QueueStepImages /\ command_queue # <<>>
                        /\ Head(command_queue) = "previous")

EdgeOf(b) ==
    IF b = 1 THEN Edge(button1_current, button1_previous)
    ELSE Edge(button2_current, button2_previous)

Other(b) == 3 - b

\* C6: at the end of a poll iteration, a 0-to-1 transition sampled on one
\* channel alone has been accepted as a press exactly if the iteration's
\* time stamp is at least debounce_time (5 ticks in run.py, 10 in
\* switch-images.py) after the last accepted press; so a second transition
\* inside the window adds no press and one at or after it adds one.
C6_DebounceDecides ==
    dpc = "end_iter" =>
        \A b \in {1, 2} :
            (EdgeOf(b) /\ ~EdgeOf(Other(b))) =>
                (b \in accepted <=>
                    gap_at_sample >= (IF program = RunPy THEN 5 ELSE 10))

\* a transition sampled exactly debounce_time after an accepted press has
\* been accepted
C6_Witness ==
    /\ program = SwitchPy /\ dpc = "end_iter"
    /\ EdgeOf(1) /\ ~EdgeOf(2)
    /\ gap_at_sample = 10
    /\ accepted = {1}

\* C7: when both channels show a 0-to-1 transition in one poll iteration
\* outside the debounce window, only the first channel's press is accepted.
C7_OnePressPerTick ==
    (/\ dpc = "end_iter" /\ EdgeOf(1) /\ EdgeOf(2)
     /\ gap_at_sample >= debounce_time(program))
        => accepted = {1}

IsPrefix(a, b) == Len(a) <= Len(b) /\ SubSeq(b, 1, Len(a)) = a

\* C8: every step leaves the waiting commands in place and in order: it
\* adds commands at the tail only, and only main's dequeue removes one,
\* the command at the head.
C8_Fifo ==
    [][\/ IsPrefix(command_queue, command_queue')
       \/ /\ command_queue # <<>>
          /\ mpc = "events" /\ dpc' = dpc
          /\ IsPrefix(Tail(command_queue), command_queue')]_vars

\* both producers have enqueued in turn: the detector's two "display" (the
\* end of press 1, the start of press 2) are followed by the "display" that
\* main's next_pair added when it dequeued the "next" of press 1
C8_Witness ==
    /\ program = RunPy /\ image_pairs # <<>>
    /\ dpc = "finish" /\ dbtn = 2
    /\ command_queue = <<"display", "display", "display">>

\* C9: no put has blocked its caller or raised queue.Full.
C9_PutNeverFails ==
    put_fault = "none"

\* six commands enqueued by the detector with none drained
C9_Witness ==
    /\ put_fault = "none"
    /\ command_queue =
           <<"display", "next", "display", "display", "next", "display">>

\* C10: when a reload has rebuilt the Collection and reset the Cursor, the
\* Cursor is an index of the new Collection, or 0 when it is empty.
C10_ReloadCursorValid ==
    mpc = "reload_reset" =>
        IF program = RunPy
        THEN IF image_pairs = <<>> THEN current_pair_index = 0
             ELSE current_pair_index \in 0..(Len(image_pairs) - 1)
        ELSE IF image_paths = <<>> THEN current_image_index = 0
             ELSE current_image_index \in 0..(Len(image_paths) - 1)

\* C11: when a reload of run.py has rebuilt the Collection and reset the
\* Cursor, RecentHistory is empty.
C11_ReloadClearsHistory ==
    (program = RunPy /\ mpc = "reload_reset") => recent_pairs_history = <<>>

\* a step in which main dispatches a dequeued command
DispatchOf(command) ==
    /\ QueueStepPairs
    /\ command_queue # <<>> /\ Head(command_queue) = command

\* C12: with an empty Collection in run.py, an advance (by key or by a
\* dequeued command) leaves the Cursor alone and enqueues nothing, a
\* Display dispatch draws the placeholder, leaves the Cursor alone and does
\* not end the loop, and a vote press sends no vote and raises nothing.
C12_EmptyCollectionNoOps ==
    [][(program = RunPy /\ image_pairs = <<>>) =>
         /\ (KeyNextPair(MaxBacklog) \/ KeyPreviousPair(MaxBacklog)) =>
               /\ current_pair_index' = current_pair_index
               /\ command_queue' = command_queue
         /\ (DispatchOf("next") \/ DispatchOf("previous")) =>
               /\ current_pair_index' = current_pair_index
               /\ command_queue' = Tail(command_queue)
               /\ mpc' = AfterIteration
         /\ DispatchOf("display") =>
               /\ current_pair_index' = current_pair_index
               /\ command_queue' = Tail(command_queue)
               /\ screen'.item = NoPairs
               /\ mpc' = AfterIteration
         /\ VoteCheck =>
               /\ dpc' = "sleep"
               /\ vote' = NoVote
               /\ current_pair_index' = current_pair_index
      ]_vars

\* a vote press on an empty Collection has been handled to its end and
\* main has dispatched its Display, Next and Display
C12_Witness ==
    /\ program = RunPy /\ image_pairs = <<>>
    /\ mpc = "events"
    /\ dpc = "end_iter" /\ accepted = {1}
    /\ command_queue = <<>>
    /\ screen = [item |-> NoPairs, selected |-> None]
    /\ vote = NoVote


\* C13: in the press scenario, the handling of an accepted press of button 1
\* sends one vote <<X, 1>> for the pair X at the Cursor, the "next" it
\* enqueues is applied as one advance, and the Selection flag is none once
\* that advance has been applied.
C13_VoteAdvanceClear ==
    [][/\ (SendVote /\ dbtn = 1) =>
              /\ vote = NoVote
              /\ vote' = <<image_pairs[current_pair_index + 1], 1>>
       /\ DispatchOf("next") =>
              /\ recent_pairs_history' =
                     Append(recent_pairs_history, current_pair_index)
              /\ command_queue' = Append(Tail(command_queue), "display")
              /\ selected_image' = None
      ]_vars

\* C14: whenever the main thread has completed the assignments of an
\* operation (startup, advance, Display dispatch, the rebuild and reset of a
\* reload) and the Collection is non-empty, the Cursor is one of its
\* indices, in run.py and in switch-images.py.
C14_CursorInRange ==
    mpc \in {"events", "reload_reset"} =>
        /\ image_pairs # <<>> =>
               current_pair_index \in 0..(Len(image_pairs) - 1)
        /\ image_paths # <<>> =>
               current_image_index \in 0..(Len(image_paths) - 1)

\* a step of the monitor_buttons thread
DetectorStep ==
    \/ Poll(TRUE, {0, 1}) \/ PollReadError \/ CheckButton2
    \/ VoteCheck \/ SendVote \/ VoteReturns \/ Settle \/ Finish
    \/ ResetSelection \/ EndIter

\* C15: no step of the edge detector thread changes the Collection, the
\* Cursor, RecentHistory or the Selection flag; its effect on the state of
\* the main thread is limited to the command queue.
C15_DetectorWritesQueueOnly ==
    [][DetectorStep =>
          UNCHANGED <<image_pairs, current_pair_index, recent_pairs_history,
                      selected_image, image_paths, current_image_index>>
      ]_vars

\* C16: when the process has ended, by quit, KeyboardInterrupt, an exception
\* in the loop body or a failure during startup, pygame.quit and
\* GPIO.cleanup have both been executed.
C16_CleanupOnEveryExit ==
    mpc \in {"exited", "crashed"} => released = {"pygame", "GPIO"}

\* C17: after GPIO.input has raised in a poll iteration, the edge detector
\* loop has not ended: it is back at the top of the loop, where the next
\* iteration starts, and it stops there only when the shutdown flag is set.
C17_ReadErrorNotFatal ==
    caught = "read" =>
        \/ dpc = "poll"
        \/ dpc = "stopped" /\ ~running

C17_Witness ==
    /\ caught = "read" /\ dpc = "poll"
    /\ running /\ DetectorAlive
    /\ button1_previous = 1
    /\ ENABLED Poll(TRUE, {0, 1})

Drawn(pairs, index, flag) ==
    [item |-> load_current_pair(pairs, index), selected |-> flag]

\* C19: in run.py the dispatch of a "display" command leaves the Collection,
\* the Cursor, RecentHistory and the Selection flag unchanged, only removes
\* the command from the queue, and draws the pair at the Cursor with the
\* current highlight; a second dispatch right after it would draw the same
\* picture again.
C19_DisplayIdempotent ==
    [][(program = RunPy /\ DispatchOf("display")) =>
          /\ UNCHANGED <<image_pairs, current_pair_index,
                         recent_pairs_history, selected_image>>
          /\ command_queue' = Tail(command_queue)
          /\ screen' = Drawn(image_pairs, current_pair_index, selected_image)
          /\ screen' = Drawn(image_pairs', current_pair_index',
                             selected_image')
      ]_vars

C19_Witness ==
    /\ program = RunPy /\ mpc = "events"
    /\ image_pairs # <<>> /\ recent_pairs_history # <<>>
    /\ command_queue = <<"display">>
    /\ dpc = "end_iter" /\ accepted = {1}
    /\ screen = Drawn(image_pairs, current_pair_index, selected_image)

\* C20: in run.py, once a vote press has been accepted, the detector goes on
\* to enqueue the forced "next" (unless the program is shut down first),
\* whether or not the vote request ever returns.
C20_VoteNeverBlocksAdvance ==
    (dpc = "vote" /\ running) ~> (dpc = "reset" \/ ~running)

\* the n newest (last) entries of a sequence, in their order
Newest(seq, n) ==
    IF Len(seq) <= n THEN seq ELSE SubSeq(seq, Len(seq) - n + 1, Len(seq))

\* C21: an advance on a non-empty Collection with Cursor c and RecentHistory
\* h leaves RecentHistory equal to the K newest entries of h followed by c.
C21_HistoryPushExact ==
    [][AdvanceStep =>
          recent_pairs_history' =
              Newest(Append(recent_pairs_history, current_pair_index),
                     MAX_HISTORY_SIZE)
      ]_vars

\* a full history whose entries are not all alike, so that an eviction or a
\* reordering shows, right after an advance has pushed onto it
C21_Witness ==
    /\ program = RunPy /\ mpc = "events"
    /\ Len(image_pairs) = 2
    /\ recent_pairs_history = <<0, 0, 1, 1, 0>>
    /\ command_queue = <<"display">>
    /\ dpc = "poll"

\* C22: an advance that moves the Cursor leaves the Selection flag at none,
\* and a Display that puts another pair on the screen draws it without a
\* highlight.
C22_AdvanceClearsSelection ==
    [][/\ (AdvanceStep /\ current_pair_index' # current_pair_index) =>
              selected_image' = None
       /\ (program = RunPy /\ DispatchOf("display")
           /\ screen.item \in PairIds /\ screen'.item \in PairIds
           /\ screen'.item # screen.item) =>
              screen'.selected = None
      ]_vars

\* C23: when main applies the forced advance of an accepted press (the
\* "next" enqueued by the detector), the screen shows a pair drawn with a
\* highlight: the highlighted draw of that press has already happened.
C23_HighlightBeforeAdvance ==
    [][(program = RunPy /\ image_pairs # <<>> /\ DispatchOf("next")) =>
          /\ screen.selected # None
          /\ screen.item = load_current_pair(image_pairs, current_pair_index)
      ]_vars

\* C24: while a pair is on the screen, the detector never reads the
\* Collection and the Cursor for a vote (the test before send_vote, the
\* subscript for the pair id) at a moment when a reload has cleared or
\* rebuilt the Collection and not yet reset the Cursor, and its subscript
\* never fails.
C24_ReloadAtomicForDetector ==
    [][((VoteCheck \/ SendVote) /\ screen.item \in PairIds) =>
          /\ mpc \notin {"reload_cleared", "reload_organized"}
          /\ caught' # "IndexError"
      ]_vars

\* C25: the detector is never inside a blocking call (the vote request, the
\* settle sleep) in the middle of a poll iteration, and when it ends an
\* iteration in which it accepted a press no time has passed since the
\* sample, so that its next sample is one poll interval after the press.
C25_NoBlockingInIteration ==
    /\ dpc \notin {"voting", "sleep"}
    /\ (dpc = "end_iter" /\ accepted # {}) => since_press = 0

\* a step in which the detector samples both channels
Sample == dpc = "poll" /\ dpc' \in {"end_iter", "check2", "vote"}

\* C26: a 0-to-1 transition sampled inside the debounce window produces no
\* press in that iteration; the iteration still records the level it
\* sampled as the previous level of each channel; and a press is accepted
\* on a channel only when its previous level is 0.  So the transition is
\* never accepted later while the channel stays high.
C26_DroppedForGood ==
    [][/\ (Sample /\ ~debounce_ok(since_press, program)) =>
              /\ accepted' = {}
              /\ command_queue' = command_queue
              /\ dpc' \in {"end_iter", "check2"}
       /\ (dpc = "check2" /\ dpc' # dpc
           /\ ~debounce_ok(gap_at_sample, program)) =>
              /\ accepted' = accepted
              /\ command_queue' = command_queue
              /\ dpc' = "end_iter"
       /\ (dpc = "end_iter" /\ dpc' = "poll") =>
              /\ button1_previous' = button1_current
              /\ button2_previous' = button2_current
       /\ (1 \in accepted' /\ 1 \notin accepted) => button1_previous = 0
       /\ (2 \in accepted' /\ 2 \notin accepted) => button2_previous = 0
      ]_vars

\* the end of an iteration that sampled a 0-to-1 transition on channel 2
\* inside the window opened by a press on channel 1, and dropped it
C26_Witness ==
    /\ program = SwitchPy /\ dpc = "end_iter"
    /\ button2_previous = 0 /\ button2_current = 1
    /\ button1_previous = 1
    /\ gap_at_sample < debounce_time(SwitchPy)
    /\ accepted = {}

\* C27: on the screen as last drawn, the marker is on the image of the side
\* the Selection flag named (0 left, 1 right) and on no other image, and
\* there is no marker when the flag was none.
C27_MarkerOnSelectedSide ==
    marked_images(screen.selected) =
        (IF screen.selected = None THEN {} ELSE {screen.selected})

\* C28: every Item built by organize_image_pairs from a listing consists of
\* the listed file <id>_1.jpg as the left slot and the listed file
\* <id>_2.jpg of the same id as the right slot, so an id lacking one of the
\* two files contributes no Item; and no two Items share an id.
C28_PairsComplete ==
    mpc = "organized" =>
        /\ \A k \in 1..Len(image_pairs) :
               LET it == image_pairs[k]
               IN  /\ it[1] \in listed /\ it[2] \in listed
                   /\ it[1] = [id |-> it[1].id, slot |-> 1, tail |-> ""]
                   /\ it[2] = [id |-> it[1].id, slot |-> 2, tail |-> ""]
        /\ \A j, k \in 1..Len(image_pairs) :
               j # k => image_pairs[j][1].id # image_pairs[k][1].id

\* C29: whenever the detector reads the pair id for send_vote while a pair
\* is on the screen, that id is the id of the pair that main drew last,
\* whatever main has done in between (commands still queued, keyboard
\* next/previous, reload).
C29_VoteForDrawnPair ==
    [][(SendVote /\ dpc' = "voting" /\ screen.item \in PairIds) =>
           vote'[1] = screen.item]_vars

\* a step in which monitor_buttons accepts a press
PressAccepted == accepted' \ accepted # {}

\* a key event of the scheduling specifications
KeyEvent == KeyQuit \/ KeyReloadPairs

\* nothing waits in the Command Channel and the screen shows the pair at
\* the Cursor without a highlight
Settled ==
    /\ command_queue = <<>>
    /\ screen.item = load_current_pair(image_pairs, current_pair_index)
    /\ screen.selected = None

\* C30: if from some point on no press is accepted and no key event
\* arrives, then from some point on, whenever run.py is in its event loop,
\* the Command Channel is empty and the last draw shows the pair at the
\* Cursor with no highlight.
C30_QueueDrainsToPlainPair ==
    <>[][~KeyEvent /\ ~PressAccepted]_vars =>
        <>[]((program = RunPy /\ mpc = "events") => Settled)

\* C31: whenever run.py is in its event loop, every entry of
\* recent_pairs_history is an index of the Collection as it is now, also
\* after a reload has installed a smaller Collection.
C31_HistoryIndexesCollection ==
    (program = RunPy /\ mpc = "events") =>
        \A k \in 1..Len(recent_pairs_history) :
            /\ 0 <= recent_pairs_history[k]
            /\ recent_pairs_history[k] < Len(image_pairs)

\* C32: if from some point on no press is accepted and no key event
\* arrives, so that no further press helps, then from some point on
\* selected_image is None for as long as run.py runs: the flag set for the
\* last accepted press has been cleared, whatever main and the catch-all
\* of the detector did in between.
C32_SelectionReturnsToNone ==
    <>[][~KeyEvent /\ ~PressAccepted]_vars =>
        <>[]((program = RunPy /\ running) => selected_image = None)

====
